---- MODULE Spec2Model ----
(***************************************************************************)
(* MoneyMind: the categorization pipeline (Transaction.categorize,         *)
(* CategorizationService.categorize_transaction,                           *)
(* ImportTransactionsHandler.handle) and the Budget entity, as state       *)
(* machines.  Confidences are percentages (0.9 is 90); money is in minor   *)
(* units; a Decimal quotient is the exact rational <<numerator,            *)
(* denominator>>.                                                          *)
(***************************************************************************)
EXTENDS Integers, Sequences, FiniteSets, TLC

(* ------------------------------ bounds --------------------------------- *)
NumTx == 2
NumCats == 2
MaxDirect == 1
MaxTxns == 2
MaxLedger == 2
MaxHistory == 4
MaxSamples == 6
MaxFindings == 2
MaxSuggestions == 3
MaxRules == 2
MaxLookups == 3
NumCalls == 2

(* ------------------------- program constants --------------------------- *)
AUTO_ACCEPT == 90
PERCENT == 100
RECURRING_MIN == 3

\* Optional[Category] without a category; the categories are 1..NumCats.
NoCategory == 0
\* The rule engine's "no rule matched".
NoSuggestion == [category |-> NoCategory, confidence |-> 0]
\* No Budget has been created.
NoBudget == 0
Txs == 1..NumTx
Cats == 1..NumCats
Confidences == {50, AUTO_ACCEPT, 95}

\* A CategorySuggestion of the rule engine: {category, confidence}.
Suggestions == [category : Cats, confidence : Confidences]
RuleOutputs == Suggestions \cup {NoSuggestion}

\* The fields of transaction t that the AI capability is called with.
TxData(t) == [description |-> 100 + t, merchant |-> 200 + t, amount |-> 0 - t]

\* The transactions a parsed file may hold: distinct ids.
Batches ==
  {<<>>} \cup
  UNION {{s \in [1..n -> Txs] : \A i, j \in 1..n : i # j => s[i] # s[j]} :
           n \in 1..NumTx}

VARIABLES
  is_active,      \* Category.is_active, per category
  txCategory,     \* Transaction.category, per transaction
  domain_events,  \* events collected by _add_domain_event
  sink,           \* events handed to the event bus
  saved,          \* transactions the repository has saved
  batch,          \* handle: the parsed transactions
  idx,            \* handle: position of the loop in batch
  pc,             \* handle: where the handler is
  ruleOut,        \* categorize_transaction: rule_category
  result,         \* categorize_transaction: the returned category
  aiAnswer,       \* what the AI capability answered in the current call
  aiOutcome,      \* "none" | "answered" | "error" for the current call
  aiCalls,        \* invocations of ai_service.categorize in the current call
  raised,         \* the exception that reached the caller, or "none"
  committed,      \* history: the assignments that were made
  nCalls,         \* history: number of Transaction.categorize calls
  attempt,        \* history: <<transaction, category>> of the last such call
  limit,          \* Budget.limit.value, NoBudget before the budget exists
  txns,           \* the transactions handed to the budget evaluation
  evaluation,     \* <<the last BudgetEvaluation>>, <<>> before the first
  rejected,       \* the CreateBudgetRequest validator raised
  budget,         \* Budget Tracker: the Budget under evaluation
  ledger,         \* Budget Tracker: the transactions of the snapshot
  outcome,        \* Budget Tracker: <<result of evaluate_budget>>, <<>> before
  report,         \* Budget Tracker: <<results of a batch of budgets>>
  history,        \* Pattern Detector: the transactions handed in
  patterns,       \* Pattern Detector: <<the PatternMatches returned>>
  samples,        \* Anomaly Detector: the transactions handed in
  anomalies,      \* Anomaly Detector: <<the Anomalies returned>>
  aiInsights,     \* what ai_service.generate_insights answers
  insights,       \* <<outcome of generate_monthly_insights>>
  aiSuggestions,  \* what ai_service.suggest_categories answers
  suggestions,    \* <<outcome of suggest_categories>>
  rules,          \* Rule Engine: the ordered rule list
  lookup,         \* Rule Engine: <<transaction, result>> of the last call
  moneyOps,       \* <<the last operation on two Money values>>
  store,          \* auth store: user, token, isAuthenticated, isLoading, error
  storage,        \* auth store: what persist wrote under 'auth-storage'
  calls,          \* auth store: the login and register calls, by call id
  reloaded,       \* history: <<the store as it was when the page was reloaded>>
  location,       \* App: the router's current path
  view            \* App: what the last render produced

catVars == <<is_active, txCategory, domain_events, sink, saved, batch, idx, pc,
             ruleOut, result, aiAnswer, aiOutcome, aiCalls, raised, committed,
             nCalls, attempt>>
budgetVars == <<limit, txns, evaluation, rejected>>
trackerVars == <<budget, ledger, outcome, report>>
patternVars == <<history, patterns>>
anomalyVars == <<samples, anomalies>>
insightVars == <<aiInsights, insights>>
suggestVars == <<aiSuggestions, suggestions>>
ruleVars == <<rules, lookup>>
moneyVars == <<moneyOps>>
clientVars == <<store, storage, calls, reloaded, location, view>>
analysisVars == <<trackerVars, patternVars, anomalyVars, insightVars,
                  suggestVars, ruleVars, moneyVars, clientVars>>
vars == <<catVars, budgetVars, analysisVars>>

(* ------------------------ Transaction.categorize ----------------------- *)
Event(t, c) == <<t, c>>

\* categorize without the is_active guard
CategorizeUnguarded(t, c, by, onOk, onRaise) ==
  /\ nCalls' = nCalls + 1
  /\ attempt' = <<t, c>>
  /\ txCategory' = [txCategory EXCEPT ![t] = c]
  /\ domain_events' = Append(domain_events, Event(t, c))
  /\ committed' = Append(committed,
                    [tx |-> t, cat |-> c, active |-> is_active[c], by |-> by])
  /\ raised' = "none"
  /\ pc' = onOk

\* categorize assigning before it checks
CategorizeAssignFirst(t, c, by, onOk, onRaise) ==
  /\ nCalls' = nCalls + 1
  /\ attempt' = <<t, c>>
  /\ txCategory' = [txCategory EXCEPT ![t] = c]
  /\ IF ~is_active[c]
       THEN /\ raised' = "DomainException"
            /\ pc' = onRaise
            /\ UNCHANGED <<domain_events, committed>>
       ELSE /\ domain_events' = Append(domain_events, Event(t, c))
            /\ committed' = Append(committed,
                    [tx |-> t, cat |-> c, active |-> is_active[c], by |-> by])
            /\ raised' = "none"
            /\ pc' = onOk

\* Transaction.categorize(category) on transaction t; the caller continues at
\* onOk, or at onRaise when DomainException is raised.
Transaction_categorize(t, c, by, onOk, onRaise) ==
  /\ nCalls' = nCalls + 1
  /\ attempt' = <<t, c>>
  /\ IF ~is_active[c]
       THEN /\ raised' = "DomainException"
            /\ pc' = onRaise
            /\ UNCHANGED <<txCategory, domain_events, committed>>
       ELSE /\ txCategory' = [txCategory EXCEPT ![t] = c]
            /\ domain_events' = Append(domain_events, Event(t, c))
            /\ committed' = Append(committed,
                    [tx |-> t, cat |-> c, active |-> is_active[c], by |-> by])
            /\ raised' = "none"
            /\ pc' = onOk

\* A caller categorizes a transaction by hand, before an import.
Categorize ==
  /\ pc = "idle"
  /\ nCalls < MaxDirect
  /\ \E t \in Txs, c \in Cats : Transaction_categorize(t, c, "direct", "idle", "idle")
  /\ UNCHANGED <<is_active, sink, saved, batch, idx, ruleOut, result, aiAnswer,
                 aiOutcome, aiCalls, budgetVars, analysisVars>>

(* ------------------- ImportTransactionsHandler.handle ------------------ *)
\* handle: the file is parsed and the loop entered.
Start ==
  /\ pc = "idle"
  /\ \E b \in Batches :
       /\ batch' = b
       /\ pc' = IF Len(b) = 0 THEN "publish" ELSE "rule"
  /\ idx' = 1
  /\ UNCHANGED <<is_active, txCategory, domain_events, sink, saved, ruleOut,
                 result, aiAnswer, aiOutcome, aiCalls, raised, committed, nCalls, attempt,
                 budgetVars, analysisVars>>

\* the comparison turned round
AcceptsRuleInverted(s) == s # NoSuggestion /\ s.confidence < AUTO_ACCEPT

\* the threshold itself accepted
AcceptsRuleAtThreshold(s) == s # NoSuggestion /\ s.confidence >= AUTO_ACCEPT

\* The auto-accept test of categorize_transaction.
AcceptsRule(s) == s # NoSuggestion /\ s.confidence > AUTO_ACCEPT

\* The arguments of the AI call for transaction t.
AIArgs(t) == [tx |-> t, args |-> TxData(t)]

\* categorize_transaction up to its await: the rule engine answers s; the
\* suggestion is accepted, or the AI capability is invoked.
RuleStep ==
  /\ pc = "rule"
  /\ \E s \in RuleOutputs :
       /\ ruleOut' = s
       /\ IF AcceptsRule(s)
            THEN /\ result' = s.category
                 /\ pc' = "apply"
                 /\ UNCHANGED aiCalls
            ELSE /\ result' = NoCategory
                 /\ pc' = "await_ai"
                 /\ aiCalls' = Append(aiCalls, AIArgs(batch[idx]))
  /\ aiAnswer' = NoCategory
  /\ aiOutcome' = "none"
  /\ UNCHANGED <<is_active, txCategory, domain_events, sink, saved, batch, idx,
                 raised, committed, nCalls, attempt, budgetVars, analysisVars>>

\* The AI capability answers category c, which categorize_transaction returns.
AIAnswer ==
  /\ pc = "await_ai"
  /\ \E c \in Cats :
       /\ aiAnswer' = c
       /\ result' = c
  /\ aiOutcome' = "answered"
  /\ pc' = "apply"
  /\ UNCHANGED <<is_active, txCategory, domain_events, sink, saved, batch, idx,
                 ruleOut, aiCalls, raised, committed, nCalls, attempt, budgetVars, analysisVars>>

\* The AI capability times out or errors: the await raises, and neither
\* categorize_transaction nor handle catches it.
AIError ==
  /\ pc = "await_ai"
  /\ aiOutcome' = "error"
  /\ raised' = "AIError"
  /\ pc' = "failed"
  /\ UNCHANGED <<is_active, txCategory, domain_events, sink, saved, batch, idx,
                 ruleOut, result, aiAnswer, aiCalls, committed, nCalls, attempt,
                 budgetVars, analysisVars>>

\* handle: transaction.categorize(category).
Apply ==
  /\ pc = "apply"
  /\ Transaction_categorize(batch[idx], result, "handle", "save", "failed")
  /\ UNCHANGED <<is_active, sink, saved, batch, idx, ruleOut, result, aiAnswer,
                 aiOutcome, aiCalls, budgetVars, analysisVars>>

\* handle: repository.save(transaction), then the next transaction; the locals
\* of the categorize_transaction call that returned are gone.
Save ==
  /\ pc = "save"
  /\ saved' = saved \cup {batch[idx]}
  /\ idx' = idx + 1
  /\ pc' = IF idx < Len(batch) THEN "rule" ELSE "publish"
  /\ ruleOut' = NoSuggestion
  /\ result' = NoCategory
  /\ aiAnswer' = NoCategory
  /\ aiOutcome' = "none"
  /\ aiCalls' = <<>>
  /\ UNCHANGED <<is_active, txCategory, domain_events, sink, batch, raised,
                 committed, nCalls, attempt, budgetVars, analysisVars>>

Reverse(s) == [i \in 1..Len(s) |-> s[Len(s) + 1 - i]]

\* publish_all handing the events over last first
PublishReversed(events) == sink \o Reverse(events)

\* event_bus.publish_all(events)
publish_all(events) == sink \o events

\* handle: the collected domain events are published and handle returns.
Publish ==
  /\ pc = "publish"
  /\ sink' = publish_all(domain_events)
  /\ pc' = "done"
  /\ UNCHANGED <<is_active, txCategory, domain_events, saved, batch, idx, ruleOut,
                 result, aiAnswer, aiOutcome, aiCalls, raised, committed, nCalls, attempt,
                 budgetVars, analysisVars>>

\* The auth store's calls are numbered; null is JavaScript's null.
CallIds == 1..NumCalls
null == "null"

\* initialState of the auth store.
initialState ==
  [user |-> null, token |-> null, isAuthenticated |-> FALSE,
   isLoading |-> FALSE, error |-> null]

\* A call id with no login or register running under it.
NoCall == [kind |-> "none", pc |-> "idle", access_token |-> null, stale |-> FALSE]

\* partialize keeping the whole state
PartializeAll(s) == s

\* persist's partialize(state): the fields written to storage.
partialize(s) ==
  [user |-> s.user, token |-> s.token, isAuthenticated |-> s.isAuthenticated]

\* The analysis components before any call, with empty inputs.
TrackerIdle == budget = <<>> /\ ledger = <<>> /\ outcome = <<>> /\ report = <<>>
PatternIdle == history = <<>> /\ patterns = <<>>
AnomalyIdle == samples = <<>> /\ anomalies = <<>>
InsightIdle == aiInsights = <<>> /\ insights = <<>>
SuggestIdle == aiSuggestions = <<>> /\ suggestions = <<>>
RuleIdle == rules = <<>> /\ lookup = <<>>
MoneyIdle == moneyOps = <<>>
\* The browser before the App is opened: nothing stored, nothing rendered.
ClientIdle ==
  /\ store = initialState
  /\ storage = <<>>
  /\ calls = [c \in CallIds |-> NoCall]
  /\ reloaded = <<>>
  /\ location = "/"
  /\ view = <<>>
AnalysisIdle ==
  /\ MoneyIdle
  /\ ClientIdle
  /\ TrackerIdle
  /\ PatternIdle
  /\ AnomalyIdle
  /\ InsightIdle
  /\ SuggestIdle
  /\ RuleIdle

BudgetIdle ==
  /\ limit = NoBudget
  /\ txns = <<>>
  /\ evaluation = <<>>
  /\ rejected = FALSE

\* The categorization side before any call, with the given Category.is_active.
CatStart(active) ==
  /\ is_active = active
  /\ txCategory = [t \in Txs |-> NoCategory]
  /\ domain_events = <<>>
  /\ sink = <<>>
  /\ saved = {}
  /\ batch = <<>>
  /\ idx = 1
  /\ pc = "idle"
  /\ ruleOut = NoSuggestion
  /\ result = NoCategory
  /\ aiAnswer = NoCategory
  /\ aiOutcome = "none"
  /\ aiCalls = <<>>
  /\ raised = "none"
  /\ committed = <<>>
  /\ nCalls = 0
  /\ attempt = <<0, NoCategory>>

Init ==
  /\ \E active \in [Cats -> BOOLEAN] : CatStart(active)
  /\ BudgetIdle
  /\ AnalysisIdle

Next ==
  \/ Categorize
  \/ Start
  \/ RuleStep
  \/ AIAnswer
  \/ AIError
  \/ Apply
  \/ Save
  \/ Publish

Spec == Init /\ [][Next]_vars

\* The handler's own steps are taken when they can be; the AI capability is
\* outside the program and owes no answer.
FairSpec ==
  /\ Init
  /\ [][Next]_vars
  /\ WF_vars(RuleStep)
  /\ WF_vars(Apply)
  /\ WF_vars(Save)
  /\ WF_vars(Publish)

(* ------------------------------- Budget -------------------------------- *)
\* Amounts of transactions, in minor units: expenses are negative.
Amounts == {-62000, -50000, -12000, -30, 0, 45}
\* Amounts a CreateBudgetRequest may carry.
LimitInputs == {-5, 0, 40, 100, 50000}

\* The transaction lists handed to an evaluation: at most MaxTxns amounts.
TxnLists == UNION {[1..n -> Amounts] : n \in 0..MaxTxns}

\* Transaction.is_expense
is_expense(a) == a < 0

Abs(a) == IF a < 0 THEN 0 - a ELSE a

\* The Budget Tracker's spent: the absolute values of the expenses, summed.
RECURSIVE Spent(_)
Spent(q) ==
  IF q = <<>>
    THEN 0
    ELSE (IF is_expense(Head(q)) THEN Abs(Head(q)) ELSE 0) + Spent(Tail(q))

\* remaining_amount never below zero
RemainingFloored(l, spent) == IF l - spent < 0 THEN 0 ELSE l - spent

\* Budget.remaining_amount(spent)
Budget_remaining_amount(l, spent) == l - spent

\* is_exceeded already at the limit
ExceededAtLimit(l, spent) == spent >= l

\* Budget.is_exceeded(spent)
Budget_is_exceeded(l, spent) == spent > l

\* percentage_used without the min
PercentageUnclamped(l, spent) == <<spent * PERCENT, l>>

\* Budget.percentage_used(spent): min(spent / limit * 100, 100), the quotient
\* as <<numerator, denominator>>.
Budget_percentage_used(l, spent) ==
  IF spent * PERCENT <= PERCENT * l
    THEN <<spent * PERCENT, l>>
    ELSE <<PERCENT, 1>>

\* The Budget Tracker's evaluate(budget, transactions).
evaluate(l, q) ==
  [spent |-> Spent(q),
   remaining |-> Budget_remaining_amount(l, Spent(q)),
   percentage_used |-> Budget_percentage_used(l, Spent(q)),
   is_exceeded |-> Budget_is_exceeded(l, Spent(q))]

\* CreateBudgetRequest.amount_must_be_positive
amount_must_be_positive(v) == ~(v <= 0)

\* A budget is requested with amount v: the validator raises, or the Budget
\* exists with that limit.
CreateBudget ==
  /\ limit = NoBudget
  /\ \E v \in LimitInputs :
       IF amount_must_be_positive(v)
         THEN limit' = v /\ rejected' = FALSE
         ELSE limit' = limit /\ rejected' = TRUE
  /\ UNCHANGED <<catVars, analysisVars, txns, evaluation>>

\* The budget is evaluated over the transactions.
Evaluate ==
  /\ limit # NoBudget
  /\ evaluation' = <<evaluate(limit, txns)>>
  /\ UNCHANGED <<catVars, analysisVars, limit, txns, rejected>>

BudgetInit ==
  /\ CatStart([c \in Cats |-> TRUE])
  /\ limit = NoBudget
  /\ txns \in TxnLists
  /\ evaluation = <<>>
  /\ rejected = FALSE
  /\ AnalysisIdle

BudgetNext ==
  \/ CreateBudget
  \/ Evaluate

BudgetSpec == BudgetInit /\ [][BudgetNext]_vars

(* ---------------------------- Budget Tracker --------------------------- *)
\* The category tree, as Category.parent_id: 1 <- 2 <- 3, and 4 apart.
TreeCats == {1, 2, 3, 4}
parent_id(c) == CASE c = 2 -> 1 [] c = 3 -> 2 [] OTHER -> NoCategory

Currencies == {"USD", "EUR"}
Dates == {1, 2, 3, 4}

\* The transactions a snapshot may hold: expenses and incomes of every
\* category, date and currency, and a zero amount inside the budget.
LedgerTxs ==
  [amount : {-30, 45}, category : {1, 3, 4}, date : Dates,
   currency : Currencies]
  \cup {[amount |-> 0, category |-> 1, date |-> 2, currency |-> "USD"]}

\* The budgets under evaluation: a limit in USD over the dates 2 to 3.
Budgets ==
  [category : {1, 2}, limit : {40}, currency : {"USD"}, start_date : {2},
   end_date : {3}]

\* Money(value, currency); ok is FALSE for the ValueError of a failed operation.
Money(v, cur) == [ok |-> TRUE, value |-> v, currency |-> cur]

\* Money.add adding whatever the currencies are
MoneyAddUnchecked(a, b) == Money(a.value + b.value, a.currency)

\* Money.add(other)
Money_add(a, b) ==
  IF a.currency # b.currency
    THEN [ok |-> FALSE, value |-> 0, currency |-> a.currency]
    ELSE Money(a.value + b.value, a.currency)

\* DateRange.contains leaving out the first day
ContainsAfterStart(start, end, d) == start < d /\ d <= end

\* DateRange.contains(date)
DateRange_contains(start, end, d) == start <= d /\ d <= end

\* Category c is root or a descendant of it: the parent_id chain of c reaches
\* root.
RECURSIVE in_category(_, _)
in_category(c, root) ==
  IF c = NoCategory
    THEN FALSE
    ELSE c = root \/ in_category(parent_id(c), root)

\* Transaction t counts toward budget b.
counts_toward(b, t) ==
  /\ is_expense(t.amount)
  /\ in_category(t.category, b.category)
  /\ DateRange_contains(b.start_date, b.end_date, t.date)

\* spent as Money: the counted amounts added with Money.add to zero of the
\* limit's currency; the first failed addition ends the sum.
RECURSIVE spent_money(_, _, _)
spent_money(b, q, acc) ==
  IF q = <<>> \/ ~acc.ok
    THEN acc
    ELSE spent_money(b, Tail(q),
           IF counts_toward(b, Head(q))
             THEN Money_add(acc, Money(Abs(Head(q).amount), Head(q).currency))
             ELSE acc)

\* evaluate_budget(budget, transactions): the figures, or CurrencyMismatch.
evaluate_budget(b, q) ==
  LET s == spent_money(b, q, Money(0, b.currency)) IN
  IF ~s.ok
    THEN [budget |-> b, status |-> "CurrencyMismatch", figures |-> <<>>]
    ELSE [budget |-> b, status |-> "ok",
          figures |-> <<[spent |-> s.value,
                         remaining |-> Budget_remaining_amount(b.limit, s.value),
                         percentage_used |-> Budget_percentage_used(b.limit, s.value),
                         is_exceeded |-> Budget_is_exceeded(b.limit, s.value)]>>]

\* The snapshot provider adds a transaction to the snapshot.
AddTransaction ==
  /\ outcome = <<>>
  /\ report = <<>>
  /\ Len(ledger) < MaxLedger
  /\ \E t \in LedgerTxs : ledger' = Append(ledger, t)
  /\ UNCHANGED <<catVars, budgetVars, moneyVars, clientVars,
                 budget, outcome, report, patternVars,
                 anomalyVars, insightVars, suggestVars, ruleVars>>

\* evaluate_budget is called on the snapshot.
EvaluateBudget ==
  /\ outcome = <<>>
  /\ report = <<>>
  /\ outcome' = <<evaluate_budget(budget[1], ledger)>>
  /\ UNCHANGED <<catVars, budgetVars, moneyVars, clientVars,
                 budget, ledger, report, patternVars,
                 anomalyVars, insightVars, suggestVars, ruleVars>>

\* analyze_budget_performance stopping at the first budget that fails
AnalyzeUntilFailure(bs, q) ==
  LET firstBad == {i \in DOMAIN bs : evaluate_budget(bs[i], q).status # "ok"} IN
  IF firstBad = {}
    THEN [i \in DOMAIN bs |-> evaluate_budget(bs[i], q)]
    ELSE <<evaluate_budget(bs[CHOOSE i \in firstBad : \A j \in firstBad : i <= j], q)>>

\* _analyze_budget_performance(transactions, budgets): every budget is
\* evaluated; a failed evaluation is reported in its place beside the others.
analyze_budget_performance(bs, q) ==
  [i \in DOMAIN bs |-> evaluate_budget(bs[i], q)]

\* The budgets of a batch: one per budgeted category.
BudgetBatch ==
  <<[category |-> 1, limit |-> 40, currency |-> "USD", start_date |-> 2,
     end_date |-> 3],
    [category |-> 2, limit |-> 40, currency |-> "USD", start_date |-> 2,
     end_date |-> 3]>>

\* The batch of budgets is evaluated on the snapshot.
EvaluateAll ==
  /\ outcome = <<>>
  /\ report = <<>>
  /\ report' = <<analyze_budget_performance(BudgetBatch, ledger)>>
  /\ UNCHANGED <<catVars, budgetVars, moneyVars, clientVars,
                 budget, ledger, outcome, patternVars,
                 anomalyVars, insightVars, suggestVars, ruleVars>>

TrackerInit ==
  /\ CatStart([c \in Cats |-> TRUE])
  /\ BudgetIdle
  /\ \E b \in Budgets : budget = <<b>>
  /\ ledger = <<>>
  /\ outcome = <<>>
  /\ report = <<>>
  /\ PatternIdle
  /\ AnomalyIdle
  /\ InsightIdle
  /\ SuggestIdle
  /\ RuleIdle
  /\ MoneyIdle
  /\ ClientIdle

TrackerNext ==
  \/ AddTransaction
  \/ EvaluateBudget
  \/ EvaluateAll

TrackerSpec == TrackerInit /\ [][TrackerNext]_vars

(* --------------------------- Pattern Detector -------------------------- *)
Descriptions == {"Netflix", "NETFLIX", "Rent"}

\* The transactions handed to the detector; a transaction's id is its
\* position in the list.
HistoryTxs == [description : Descriptions, amount : {-50, -60}]

\* The grouping key: the description without case.
normalize(d) == CASE d = "NETFLIX" -> "netflix"
                  [] d = "Netflix" -> "netflix"
                  [] OTHER -> "rent"

\* t.merchant_matches(description)
merchant_matches(t, d) == normalize(t.description) = normalize(d)

\* Transaction.is_recurring_pattern(other_transactions), for the transaction
\* at position i of q and the other transactions at the positions others.
is_recurring_pattern(q, i, others) ==
  Cardinality({j \in others : merchant_matches(q[j], q[i].description)})
    >= RECURRING_MIN

\* The positions of the transactions of q grouped under key k.
GroupOf(q, k) == {i \in DOMAIN q : normalize(q[i].description) = k}

\* detect_recurring(transactions): one PatternMatch per group whose first
\* transaction is a recurring pattern among the other transactions.
detect_recurring(q) ==
  {[key |-> k, ids |-> GroupOf(q, k)] :
     k \in {kk \in {normalize(q[i].description) : i \in DOMAIN q} :
              LET first == CHOOSE i \in GroupOf(q, kk) :
                             \A j \in GroupOf(q, kk) : i <= j
              IN is_recurring_pattern(q, first, DOMAIN q \ {first})}}

\* A transaction is added to the list handed to the detector.
AddHistory ==
  /\ patterns = <<>>
  /\ Len(history) < MaxHistory
  /\ \E t \in HistoryTxs : history' = Append(history, t)
  /\ UNCHANGED <<catVars, budgetVars, moneyVars, clientVars,
                 trackerVars, patterns, anomalyVars,
                 insightVars, suggestVars, ruleVars>>

\* detect_recurring is called on the list.
DetectRecurring ==
  /\ patterns = <<>>
  /\ patterns' = <<detect_recurring(history)>>
  /\ UNCHANGED <<catVars, budgetVars, moneyVars, clientVars,
                 trackerVars, history, anomalyVars,
                 insightVars, suggestVars, ruleVars>>

PatternInit ==
  /\ CatStart([c \in Cats |-> TRUE])
  /\ BudgetIdle
  /\ AnalysisIdle

PatternNext ==
  \/ AddHistory
  \/ DetectRecurring

PatternSpec == PatternInit /\ [][PatternNext]_vars

(* --------------------------- Anomaly Detector -------------------------- *)
\* Fewer transactions than this in a category are too little history.
MIN_SAMPLE == 5
\* An amount is anomalous beyond this multiple of the spread.
SPREAD_MULTIPLE == 3

\* The transactions handed to the detector; a transaction's id is its
\* position in the list.
SampleTxs == [category : {1, 2}, amount : {-10, -1000}]

\* Twice the median of the values f[i], i in the non-empty set S: the middle
\* value twice, or the sum of the two middle values.
KthSmallest(f, S, k) ==
  CHOOSE v \in {f[i] : i \in S} :
    /\ Cardinality({i \in S : f[i] < v}) < k
    /\ Cardinality({i \in S : f[i] <= v}) >= k
Median2(f, S) ==
  LET n == Cardinality(S) IN
  IF n % 2 = 1
    THEN 2 * KthSmallest(f, S, (n + 1) \div 2)
    ELSE KthSmallest(f, S, n \div 2) + KthSmallest(f, S, n \div 2 + 1)

\* the sample-size test letting every category through
AnyHistory(n) == TRUE

\* A category with n transactions has enough history to be judged.
has_enough_history(n) == n >= MIN_SAMPLE

\* detect_anomalies(transactions): per category with enough history, the
\* transactions whose deviation from the median exceeds SPREAD_MULTIPLE times
\* the median absolute deviation (deviations are kept doubled).
detect_anomalies(q) ==
  LET amounts == [i \in DOMAIN q |-> q[i].amount]
      members(c) == {i \in DOMAIN q : q[i].category = c}
      dev(c) == [i \in DOMAIN q |-> Abs(2 * q[i].amount - Median2(amounts, members(c)))]
      judged == {c \in {q[i].category : i \in DOMAIN q} :
                   has_enough_history(Cardinality(members(c)))}
  IN {[transaction_id |-> i, category |-> q[i].category,
       observed_value |-> q[i].amount,
       deviation |-> dev(q[i].category)[i],
       spread |-> Median2(dev(q[i].category), members(q[i].category))] :
        i \in {j \in DOMAIN q :
                 /\ q[j].category \in judged
                 /\ 2 * dev(q[j].category)[j] >
                      SPREAD_MULTIPLE * Median2(dev(q[j].category), members(q[j].category))}}

\* A transaction is added to the list handed to the detector.
AddSample ==
  /\ anomalies = <<>>
  /\ Len(samples) < MaxSamples
  /\ \E t \in SampleTxs : samples' = Append(samples, t)
  /\ UNCHANGED <<catVars, budgetVars, moneyVars, clientVars,
                 trackerVars, patternVars, anomalies,
                 insightVars, suggestVars, ruleVars>>

\* detect_anomalies is called on the list.
DetectAnomalies ==
  /\ anomalies = <<>>
  /\ anomalies' = <<detect_anomalies(samples)>>
  /\ UNCHANGED <<catVars, budgetVars, moneyVars, clientVars,
                 trackerVars, patternVars, samples,
                 insightVars, suggestVars, ruleVars>>

AnomalyInit ==
  /\ CatStart([c \in Cats |-> TRUE])
  /\ BudgetIdle
  /\ AnalysisIdle

AnomalyNext ==
  \/ AddSample
  \/ DetectAnomalies

AnomalySpec == AnomalyInit /\ [][AnomalyNext]_vars

(* --------------------------- Insight Generator ------------------------- *)
\* Priorities, LOW to HIGH.
Priorities == {1, 2, 3}
Messages == {"plain", "polished"}

\* What the two analysis helpers hand to the AI service.
PatternFindings == [kind : {"Pattern"}, priority : Priorities]
BudgetFindings == [kind : {"Budget"}, priority : Priorities]
SeqsUpTo(S, n) == UNION {[1..k -> S] : k \in 0..n}
Analyses ==
  {a \in [spending_patterns : SeqsUpTo(PatternFindings, MaxFindings),
          budget_analysis : SeqsUpTo(BudgetFindings, MaxFindings)] :
     Len(a.spending_patterns) + Len(a.budget_analysis) <= MaxFindings}

\* What ai_service.generate_insights can answer: any list of insights.
Insights == [kind : {"Pattern", "Budget"}, priority : Priorities, message : Messages]
AIInsightLists == SeqsUpTo(Insights, MaxFindings)

\* generate_monthly_insights when the AI service answers: the answer is
\* returned as it is.
GenerateInsightsReturns ==
  /\ insights = <<>>
  /\ \E a \in Analyses, out \in AIInsightLists :
       /\ aiInsights' = <<[request |-> a, status |-> "ok", value |-> out]>>
       /\ insights' = <<[status |-> "returned", value |-> out]>>
  /\ UNCHANGED <<catVars, budgetVars, moneyVars, clientVars,
                 trackerVars, patternVars, anomalyVars,
                 suggestVars, ruleVars>>

\* generate_monthly_insights when the awaited AI call raises: nothing
\* catches it.
GenerateInsightsRaises ==
  /\ insights = <<>>
  /\ \E a \in Analyses :
       /\ aiInsights' = <<[request |-> a, status |-> "error", value |-> <<>>]>>
       /\ insights' = <<[status |-> "raised", value |-> <<>>]>>
  /\ UNCHANGED <<catVars, budgetVars, moneyVars, clientVars,
                 trackerVars, patternVars, anomalyVars,
                 suggestVars, ruleVars>>

InsightInit ==
  /\ CatStart([c \in Cats |-> TRUE])
  /\ BudgetIdle
  /\ AnalysisIdle

InsightNext ==
  \/ GenerateInsightsReturns
  \/ GenerateInsightsRaises

InsightSpec == InsightInit /\ [][InsightNext]_vars

(* --------------------------- suggest_categories ------------------------ *)
\* What ai_service.suggest_categories can answer: any list of suggestions.
AISuggestionLists == SeqsUpTo(Suggestions, MaxSuggestions)

\* suggest_categories(description) when the AI service answers.
SuggestReturns ==
  /\ suggestions = <<>>
  /\ \E d \in Descriptions, out \in AISuggestionLists :
       /\ aiSuggestions' = <<[description |-> d, status |-> "ok", value |-> out]>>
       /\ suggestions' = <<[status |-> "returned", value |-> out]>>
  /\ UNCHANGED <<catVars, budgetVars, moneyVars, clientVars,
                 trackerVars, patternVars, anomalyVars,
                 insightVars, ruleVars>>

\* suggest_categories(description) when the AI service raises or is absent.
SuggestRaises ==
  /\ suggestions = <<>>
  /\ \E d \in Descriptions :
       /\ aiSuggestions' = <<[description |-> d, status |-> "error", value |-> <<>>]>>
       /\ suggestions' = <<[status |-> "raised", value |-> <<>>]>>
  /\ UNCHANGED <<catVars, budgetVars, moneyVars, clientVars,
                 trackerVars, patternVars, anomalyVars,
                 insightVars, ruleVars>>

SuggestInit ==
  /\ CatStart([c \in Cats |-> TRUE])
  /\ BudgetIdle
  /\ AnalysisIdle

SuggestNext ==
  \/ SuggestReturns
  \/ SuggestRaises

SuggestSpec == SuggestInit /\ [][SuggestNext]_vars

(* ------------------------------ Rule Engine ---------------------------- *)
\* Descriptions are sequences of characters; merchant "" is no merchant.
RuleTxs ==
  [description : {<<>>, <<" ", " ">>, <<"a">>, <<"b", " ", "a">>, <<"b">>},
   merchant : {""}]
    \cup [description : {<<" ", " ">>, <<"a">>, <<"b">>}, merchant : {"Acme"}]

\* A rule: a predicate over merchant or description, a target category and
\* a base confidence.
RuleUniverse ==
  [kind : {"merchant"}, pattern : {<<"Acme">>}, target_category : {1},
   base_confidence : {95}]
    \cup [kind : {"keyword"}, pattern : {<<"a">>, <<" ">>}, target_category : {2},
          base_confidence : {50}]
    \cup [kind : {"keyword"}, pattern : {<<"a">>}, target_category : {1},
          base_confidence : {95}]

\* d contains k as a contiguous substring.
Contains(d, k) ==
  \E i \in 0..(Len(d) - Len(k)) : SubSeq(d, i + 1, i + Len(k)) = k

\* Empty or whitespace-only.
IsBlank(d) == \A i \in DOMAIN d : d[i] = " "

rule_matches(r, t) ==
  IF r.kind = "merchant"
    THEN <<t.merchant>> = r.pattern
    ELSE Contains(t.description, r.pattern)

\* the evaluation order that is the list order alone
ListOrder(rs) == rs

\* Priority order: exact-merchant rules, then substring/keyword rules, each
\* kind in list order.
priority_order(rs) ==
  SelectSeq(rs, LAMBDA r : r.kind = "merchant")
    \o SelectSeq(rs, LAMBDA r : r.kind = "keyword")

\* The first rule of the priority order that matches, as a suggestion.
first_match(rs, t) ==
  LET ordered == priority_order(rs)
      hits == {i \in DOMAIN ordered : rule_matches(ordered[i], t)}
  IN IF hits = {}
       THEN NoSuggestion
       ELSE LET i == CHOOSE h \in hits : \A g \in hits : h <= g
            IN [category |-> ordered[i].target_category,
                confidence |-> ordered[i].base_confidence]

\* an engine that answers only its first call
CategorizeOnce(rs, t) ==
  IF lookup # <<>> \/ IsBlank(t.description) THEN NoSuggestion ELSE first_match(rs, t)

\* RuleEngine.categorize(transaction) over the rule list rs.
RuleEngine_categorize(rs, t) ==
  IF IsBlank(t.description) THEN NoSuggestion ELSE first_match(rs, t)

\* A rule is appended to the engine's list, before the engine is used.
AddRule ==
  /\ lookup = <<>>
  /\ Len(rules) < MaxRules
  /\ \E r \in RuleUniverse : rules' = Append(rules, r)
  /\ UNCHANGED <<catVars, budgetVars, moneyVars, clientVars,
                 trackerVars, patternVars, anomalyVars,
                 insightVars, suggestVars, lookup>>

\* rule_engine.categorize(transaction) is called; the call is logged with
\* what it returned.
RuleCategorize ==
  /\ Len(lookup) < MaxLookups
  /\ \E t \in RuleTxs :
       lookup' = Append(lookup, [transaction |-> t,
                                 result |-> RuleEngine_categorize(rules, t)])
  /\ UNCHANGED <<catVars, budgetVars, moneyVars, clientVars,
                 trackerVars, patternVars, anomalyVars,
                 insightVars, suggestVars, rules>>

RuleInit ==
  /\ CatStart([c \in Cats |-> TRUE])
  /\ BudgetIdle
  /\ AnalysisIdle

RuleNext ==
  \/ AddRule
  \/ RuleCategorize

RuleSpec == RuleInit /\ [][RuleNext]_vars

(* ---------------------- operations on two Money values ----------------- *)
\* Money.currency when none is given: Currency.USD.
DEFAULT_CURRENCY == "USD"

\* The Money values the operations are applied to.
MoneyValues == {Money(v, cur) : v \in {10, 40, 50}, cur \in Currencies}

\* What an operation gives: it raised, or a Money, or a truth value.
Raised == [raised |-> TRUE, value |-> 0, currency |-> null, truth |-> FALSE]
GaveMoney(m) ==
  [raised |-> FALSE, value |-> m.value, currency |-> m.currency, truth |-> FALSE]
GaveTruth(b) == [raised |-> FALSE, value |-> 0, currency |-> null, truth |-> b]

\* Budget.remaining_amount(spent) of a budget with the given limit:
\* Money(self.limit.value - spent.value), the currency left to its default.
Budget_remaining_money(lim, spent) ==
  Money(Budget_remaining_amount(lim.value, spent.value), DEFAULT_CURRENCY)

\* a.add(b)
MoneyAdd ==
  /\ moneyOps = <<>>
  /\ \E a, b \in MoneyValues :
       moneyOps' = <<[op |-> "add", a |-> a, b |-> b,
                      result |-> IF Money_add(a, b).ok
                                   THEN GaveMoney(Money_add(a, b))
                                   ELSE Raised]>>
  /\ UNCHANGED <<catVars, budgetVars, trackerVars, patternVars, anomalyVars,
                 insightVars, suggestVars, ruleVars, clientVars>>

\* budget.remaining_amount(spent) for a budget whose limit is a
RemainingAmount ==
  /\ moneyOps = <<>>
  /\ \E a, b \in MoneyValues :
       moneyOps' = <<[op |-> "remaining_amount", a |-> a, b |-> b,
                      result |-> GaveMoney(Budget_remaining_money(a, b))]>>
  /\ UNCHANGED <<catVars, budgetVars, trackerVars, patternVars, anomalyVars,
                 insightVars, suggestVars, ruleVars, clientVars>>

\* budget.is_exceeded(spent) for a budget whose limit is a
IsExceeded ==
  /\ moneyOps = <<>>
  /\ \E a, b \in MoneyValues :
       moneyOps' = <<[op |-> "is_exceeded", a |-> a, b |-> b,
                      result |-> GaveTruth(Budget_is_exceeded(a.value, b.value))]>>
  /\ UNCHANGED <<catVars, budgetVars, trackerVars, patternVars, anomalyVars,
                 insightVars, suggestVars, ruleVars, clientVars>>

MoneyInit ==
  /\ CatStart([c \in Cats |-> TRUE])
  /\ BudgetIdle
  /\ AnalysisIdle

MoneyNext ==
  \/ MoneyAdd
  \/ RemainingAmount
  \/ IsExceeded

MoneySpec == MoneyInit /\ [][MoneyNext]_vars

(* ------------------- insights about evaluated budgets ------------------ *)
\* generate_monthly_insights over one budget with limit l and transactions
\* q: the budget's evaluation is handed to the AI service, whose answer is
\* returned as it is, priorities included.
GenerateBudgetInsights ==
  /\ insights = <<>>
  /\ \E l \in {v \in LimitInputs : amount_must_be_positive(v)}, q \in TxnLists,
        out \in AIInsightLists :
       /\ aiInsights' = <<[request |-> [spending_patterns |-> <<>>,
                                        budget_analysis |-> <<evaluate(l, q)>>],
                           status |-> "ok", value |-> out]>>
       /\ insights' = <<[status |-> "returned", value |-> out]>>
  /\ UNCHANGED <<catVars, budgetVars, moneyVars, clientVars,
                 trackerVars, patternVars, anomalyVars, suggestVars, ruleVars>>

PriorityInit ==
  /\ CatStart([c \in Cats |-> TRUE])
  /\ BudgetIdle
  /\ AnalysisIdle

PriorityNext == GenerateBudgetInsights

PrioritySpec == PriorityInit /\ [][PriorityNext]_vars

(* ------------------------------ auth store ----------------------------- *)
Users == {"alice"}
Tokens == {"t1", "t2"}
\* errorData.detail of a response that is not ok, when it has one.
ServerDetails == {"Invalid credentials"}
LoginFailures == ServerDetails \cup {"Login failed"}
RegisterFailures == ServerDetails \cup {"Registration failed"}
UserInfoFailure == "Failed to get user info"

\* set({ isLoading: true, error: null }), the first statement of login and
\* of register.
begin_call(s) == [s EXCEPT !.isLoading = TRUE, !.error = null]

\* the success set of login that keeps the token out of the store
LoginSuccessWithoutToken(s, userData, access_token) ==
  [s EXCEPT !.user = userData, !.isAuthenticated = TRUE, !.isLoading = FALSE,
            !.error = null]

\* login: the set after both requests were ok.
login_success(s, userData, access_token) ==
  [user |-> userData, token |-> access_token, isAuthenticated |-> TRUE,
   isLoading |-> FALSE, error |-> null]

\* the catch of login that also signs the user out
LoginFailureSignsOut(s, message) ==
  [s EXCEPT !.user = null, !.token = null, !.isAuthenticated = FALSE,
            !.isLoading = FALSE, !.error = message]

\* login: the set in the catch block.
login_failure(s, message) == [s EXCEPT !.isLoading = FALSE, !.error = message]

\* the success set of register that signs the new user in
RegisterSignsIn(s, userData) ==
  [s EXCEPT !.user = userData, !.token = "t1", !.isAuthenticated = TRUE,
            !.isLoading = FALSE, !.error = null]

\* register: the set after the request was ok; userData is only returned.
register_success(s, userData) == [s EXCEPT !.isLoading = FALSE, !.error = null]

\* register: the set in the catch block.
register_failure(s, message) == [s EXCEPT !.isLoading = FALSE, !.error = message]

\* logout()
logout(s) ==
  [s EXCEPT !.user = null, !.token = null, !.isAuthenticated = FALSE,
            !.error = null]

\* clearError(), setLoading(loading), setError(error)
clearError(s) == [s EXCEPT !.error = null]
setLoading(s, loading) == [s EXCEPT !.isLoading = loading]
setError(s, error) == [s EXCEPT !.error = error]

\* What persist restores when the store is created: initialState with the
\* stored fields laid over it.
hydrate(stored) ==
  IF stored = <<>>
    THEN initialState
    ELSE [k \in DOMAIN initialState |->
            IF k \in DOMAIN stored[1] THEN stored[1][k] ELSE initialState[k]]

(* --------------------------------- App --------------------------------- *)
\* The routes App declares, and a path it does not declare.
PublicRoutes == {"/login", "/register"}
ProtectedRoutes == {"/", "/transactions", "/budgets", "/insights", "/chat"}
Paths == PublicRoutes \cup ProtectedRoutes \cup {"/settings"}

\* rendering Header and Sidebar whatever the store says
LayoutAlways(isAuthenticated) == TRUE

\* {isAuthenticated && <Header />}, {isAuthenticated && <Sidebar />}
layout_shown(isAuthenticated) == isAuthenticated

\* Where <Routes> leaves the router for a path: the Navigate elements are
\* followed; what ProtectedRoute does with its children is not App's.
resolve(isAuthenticated, path) ==
  IF path \in PublicRoutes
    THEN IF isAuthenticated THEN "/" ELSE path
    ELSE IF path \in ProtectedRoutes THEN path ELSE "/"

\* The element App renders at a resolved path.
element_at(path) ==
  CASE path = "/login" -> "LoginForm"
    [] path = "/register" -> "RegisterForm"
    [] OTHER -> "ProtectedRoute"

\* One render of App.
render(isAuthenticated, path) ==
  [requested |-> path,
   header |-> layout_shown(isAuthenticated),
   sidebar |-> layout_shown(isAuthenticated),
   element |-> element_at(resolve(isAuthenticated, path))]

\* App, once mounted, renders again on every change of the store.
Rerender(s) ==
  IF view = <<>>
    THEN UNCHANGED <<location, view>>
    ELSE /\ location' = resolve(s.isAuthenticated, location)
         /\ view' = <<render(s.isAuthenticated, location)>>

\* set(...) of the persisted store: the state is replaced, the partialized
\* state is written to storage, subscribers render.
Set(s) ==
  /\ store' = s
  /\ storage' = <<partialize(s)>>
  /\ reloaded' = <<>>
  /\ Rerender(s)

InFlight(c) == calls[c].pc \in {"auth_login", "auth_me", "auth_register"}

\* login(email, password) is called: up to the first await.
LoginStart(c) ==
  /\ ~InFlight(c)
  /\ Set(begin_call(store))
  /\ calls' = [calls EXCEPT ![c] = [kind |-> "login", pc |-> "auth_login",
                                    access_token |-> null, stale |-> FALSE]]
  /\ UNCHANGED <<catVars, budgetVars, trackerVars, patternVars, anomalyVars,
                 insightVars, suggestVars, ruleVars, moneyVars>>

\* The /auth/login response arrives: not ok, the catch block runs and the
\* promise rejects; ok, the /auth/me request is sent with the access token.
LoginResponse(c) ==
  /\ calls[c].pc = "auth_login"
  /\ \/ \E message \in LoginFailures :
          /\ Set(login_failure(store, message))
          /\ calls' = [calls EXCEPT ![c].pc = "rejected"]
     \/ \E t \in Tokens :
          /\ calls' = [calls EXCEPT ![c].pc = "auth_me", ![c].access_token = t]
          /\ UNCHANGED <<store, storage, reloaded, location, view>>
  /\ UNCHANGED <<catVars, budgetVars, trackerVars, patternVars, anomalyVars,
                 insightVars, suggestVars, ruleVars, moneyVars>>

\* The /auth/me response arrives: not ok, the catch block runs and the
\* promise rejects; ok, the user and the token are stored.
MeResponse(c) ==
  /\ calls[c].pc = "auth_me"
  /\ \/ /\ Set(login_failure(store, UserInfoFailure))
        /\ calls' = [calls EXCEPT ![c].pc = "rejected"]
     \/ \E u \in Users :
          /\ Set(login_success(store, u, calls[c].access_token))
          /\ calls' = [calls EXCEPT ![c].pc = "resolved"]
  /\ UNCHANGED <<catVars, budgetVars, trackerVars, patternVars, anomalyVars,
                 insightVars, suggestVars, ruleVars, moneyVars>>

\* register(...) is called: up to the await.
RegisterStart(c) ==
  /\ ~InFlight(c)
  /\ Set(begin_call(store))
  /\ calls' = [calls EXCEPT ![c] = [kind |-> "register", pc |-> "auth_register",
                                    access_token |-> null, stale |-> FALSE]]
  /\ UNCHANGED <<catVars, budgetVars, trackerVars, patternVars, anomalyVars,
                 insightVars, suggestVars, ruleVars, moneyVars>>

\* The /auth/register response arrives.
RegisterResponse(c) ==
  /\ calls[c].pc = "auth_register"
  /\ \/ \E message \in RegisterFailures :
          /\ Set(register_failure(store, message))
          /\ calls' = [calls EXCEPT ![c].pc = "rejected"]
     \/ \E u \in Users :
          /\ Set(register_success(store, u))
          /\ calls' = [calls EXCEPT ![c].pc = "resolved"]
  /\ UNCHANGED <<catVars, budgetVars, trackerVars, patternVars, anomalyVars,
                 insightVars, suggestVars, ruleVars, moneyVars>>

\* logout(), as Header's handleLogout calls it. The logins in flight are
\* marked as older than this logout.
Logout ==
  /\ Set(logout(store))
  /\ calls' = [c \in CallIds |->
                 IF calls[c].kind = "login" /\ InFlight(c)
                   THEN [calls[c] EXCEPT !.stale = TRUE]
                   ELSE calls[c]]
  /\ UNCHANGED <<catVars, budgetVars, trackerVars, patternVars, anomalyVars,
                 insightVars, suggestVars, ruleVars, moneyVars>>

ClearError ==
  /\ Set(clearError(store))
  /\ UNCHANGED <<catVars, budgetVars, trackerVars, patternVars, anomalyVars,
                 insightVars, suggestVars, ruleVars, moneyVars, calls>>

SetLoading ==
  /\ \E loading \in BOOLEAN : Set(setLoading(store, loading))
  /\ UNCHANGED <<catVars, budgetVars, trackerVars, patternVars, anomalyVars,
                 insightVars, suggestVars, ruleVars, moneyVars, calls>>

SetError ==
  /\ \E error \in ServerDetails : Set(setError(store, error))
  /\ UNCHANGED <<catVars, budgetVars, trackerVars, patternVars, anomalyVars,
                 insightVars, suggestVars, ruleVars, moneyVars, calls>>

\* The page is reloaded: the running calls are gone with the page, the store
\* is created again and persist restores what it had written.
Reload ==
  /\ store' = hydrate(storage)
  /\ reloaded' = <<store>>
  /\ calls' = [c \in CallIds |-> NoCall]
  /\ Rerender(hydrate(storage))
  /\ UNCHANGED <<catVars, budgetVars, trackerVars, patternVars, anomalyVars,
                 insightVars, suggestVars, ruleVars, moneyVars, storage>>

\* The browser goes to path p: App is mounted if it was not, the router
\* follows the Navigate elements and App renders.
Navigate ==
  /\ \E p \in Paths :
       /\ location' = resolve(store.isAuthenticated, p)
       /\ view' = <<render(store.isAuthenticated, p)>>
  /\ UNCHANGED <<catVars, budgetVars, trackerVars, patternVars, anomalyVars,
                 insightVars, suggestVars, ruleVars, moneyVars, store, storage,
                 calls, reloaded>>

AuthInit ==
  /\ CatStart([c \in Cats |-> TRUE])
  /\ BudgetIdle
  /\ AnalysisIdle

\* login and register with their completions.
AuthCallsNext ==
  \/ \E c \in CallIds : LoginStart(c)
  \/ \E c \in CallIds : LoginResponse(c)
  \/ \E c \in CallIds : MeResponse(c)
  \/ \E c \in CallIds : RegisterStart(c)
  \/ \E c \in CallIds : RegisterResponse(c)

AuthNext ==
  \/ AuthCallsNext
  \/ Logout
  \/ ClearError
  \/ SetLoading
  \/ SetError
  \/ Reload

AuthSpec == AuthInit /\ [][AuthNext]_vars

\* App over the store: navigation, login and logout.
AppNext ==
  \/ Navigate
  \/ \E c \in CallIds : LoginStart(c)
  \/ \E c \in CallIds : LoginResponse(c)
  \/ \E c \in CallIds : MeResponse(c)
  \/ Logout

AppSpec == AuthInit /\ [][AppNext]_vars

\* The store with login and register only, setLoading never called.
AuthCallsSpec == AuthInit /\ [][AuthCallsNext]_vars

(* ------------------------------ claims --------------------------------- *)
\* The number of elements of sequence q that satisfy Test.
Count(q, Test(_)) == Cardinality({i \in DOMAIN q : Test(q[i])})

\* The position of transaction t in the batch, 0 when it is not in it.
BatchPos(t) ==
  IF \E i \in DOMAIN batch : batch[i] = t
    THEN CHOOSE i \in DOMAIN batch : batch[i] = t
    ELSE 0

\* handle is inside categorize_transaction for batch[idx], or past it.
InCall == pc \in {"await_ai", "apply", "save"}
Returned == pc \in {"apply", "save"}
HandleEnded == pc \in {"done", "failed"}
AICallsFor(t) == Count(aiCalls, LAMBDA a : a.tx = t)
HighConfidence == ruleOut # NoSuggestion /\ ruleOut.confidence > AUTO_ACCEPT

\* C1: every category that was committed to a transaction, by a direct call
\* or by an import, was active when it was assigned; no transaction holds an
\* inactive category.
C1_OnlyActiveAssigned ==
  /\ \A i \in DOMAIN committed : committed[i].active
  /\ \A t \in Txs : txCategory[t] # NoCategory => is_active[txCategory[t]]
  /\ \A i \in DOMAIN domain_events : is_active[domain_events[i][2]]

\* An import has re-categorized a transaction while an inactive category exists.
C1_Witness ==
  /\ pc = "done"
  /\ \E c \in Cats : ~is_active[c]
  /\ \E i, j \in DOMAIN committed :
       i < j /\ committed[i].tx = committed[j].tx /\ committed[j].by = "handle"

\* C2: a Transaction.categorize call with an inactive category raises
\* DomainException to its caller, leaves every transaction's category as it
\* was and adds no TransactionCategorized event.
C2_InactiveRejected ==
  [][(nCalls' # nCalls /\ ~is_active[attempt'[2]]) =>
       /\ raised' = "DomainException"
       /\ txCategory' = txCategory
       /\ domain_events' = domain_events
       /\ sink' = sink]_vars

\* An inactive category was refused for a transaction that keeps the category
\* it had.
C2_Witness ==
  /\ raised = "DomainException"
  /\ ~is_active[attempt[2]]
  /\ txCategory[attempt[1]] # NoCategory
  /\ txCategory[attempt[1]] # attempt[2]

\* C3: when the rule engine's suggestion has confidence > 0.9,
\* categorize_transaction returns the suggestion's category and the AI
\* capability is not invoked in that call.
C3_HighConfidenceSkipsAI ==
  (InCall /\ HighConfidence) =>
     /\ pc # "await_ai"
     /\ result = ruleOut.category
     /\ aiOutcome = "none"
     /\ AICallsFor(batch[idx]) = 0

\* A suggestion with confidence 95 was returned.
C3_Witness ==
  /\ Returned
  /\ HighConfidence
  /\ result = ruleOut.category

\* C4: when the rule engine returns nothing or a suggestion with confidence
\* <= 0.9 and the AI capability answers, categorize_transaction has invoked
\* the AI capability exactly once, with the transaction's description,
\* merchant and amount, and returns the AI's category.
C4_LowConfidenceUsesAI ==
  (Returned /\ ~HighConfidence) =>
     /\ aiOutcome = "answered"
     /\ AICallsFor(batch[idx]) = 1
     /\ \A i \in DOMAIN aiCalls :
          aiCalls[i].tx = batch[idx] => aiCalls[i].args = TxData(batch[idx])
     /\ result = aiAnswer

\* A suggestion with confidence exactly 0.9 was overruled by the AI's answer,
\* for the second transaction of a batch.
C4_Witness ==
  /\ Returned
  /\ idx = 2
  /\ ruleOut # NoSuggestion
  /\ ruleOut.confidence = AUTO_ACCEPT
  /\ aiOutcome = "answered"
  /\ result = aiAnswer
  /\ result # ruleOut.category

\* C5: when the AI capability times out or errors, the result is the rule
\* suggestion's category if there was a suggestion, and a categorization
\* failure if there was none; the AI's error does not reach the caller.
C5_AIFailureFallsBack ==
  aiOutcome = "error" =>
     /\ raised # "AIError"
     /\ ruleOut # NoSuggestion => result = ruleOut.category
     /\ ruleOut = NoSuggestion => raised = "CategorizationError"

\* C6: every call of categorize_transaction that waits for the AI capability
\* eventually stops waiting, with a category or an error.
C6_EveryCallReturns == (pc = "await_ai") ~> (pc # "await_ai")

\* C7: when handle has ended, by returning or by raising, the event sink holds
\* one event per successful categorization and no other; the event of a
\* transaction that handle categorized and saved is not lost.
C7_OneEventPerSuccess ==
  HandleEnded =>
     /\ Len(sink) <= Len(committed)
     /\ \A t \in saved :
          Count(sink, LAMBDA e : e[1] = t) = Count(committed, LAMBDA a : a.tx = t)

\* The events that handle's own categorizations produced, as the sink has them.
HandleEvents ==
  SubSeq(sink, Count(committed, LAMBDA a : a.by = "direct") + 1, Len(sink))

QLeq(p, q) == p[1] * q[2] <= q[1] * p[2]
QEq(p, q) == p[1] * q[2] = q[1] * p[2]
Evaluated == evaluation # <<>>

\* C9: the evaluation's percentage_used lies in [0, 100], and is 100 whenever
\* spent exceeds the limit.
C9_PercentageClamped ==
  Evaluated =>
     /\ evaluation[1].percentage_used[2] > 0
     /\ QLeq(<<0, 1>>, evaluation[1].percentage_used)
     /\ QLeq(evaluation[1].percentage_used, <<PERCENT, 1>>)
     /\ evaluation[1].spent > limit =>
          QEq(evaluation[1].percentage_used, <<PERCENT, 1>>)

\* An overspent budget was evaluated at 100 percent.
C9_Witness ==
  /\ Evaluated
  /\ evaluation[1].spent > limit
  /\ QEq(evaluation[1].percentage_used, <<PERCENT, 1>>)

\* C10: remaining = limit - spent: remaining + spent = limit when spent <=
\* limit, remaining is minus the overspend when spent > limit, and limit 50000
\* with spent 62000 gives remaining -12000, is_exceeded and percentage_used 100.
C10_RemainingIsLimitMinusSpent ==
  Evaluated =>
     /\ evaluation[1].remaining = limit - evaluation[1].spent
     /\ evaluation[1].spent <= limit =>
          evaluation[1].remaining + evaluation[1].spent = limit
     /\ evaluation[1].spent > limit =>
          /\ evaluation[1].remaining < 0
          /\ 0 - evaluation[1].remaining = evaluation[1].spent - limit
     /\ (limit = 50000 /\ evaluation[1].spent = 62000) =>
          /\ evaluation[1].remaining = -12000
          /\ evaluation[1].is_exceeded
          /\ QEq(evaluation[1].percentage_used, <<PERCENT, 1>>)

\* The budget of 50000 with 62000 spent was evaluated.
C10_Witness ==
  /\ Evaluated
  /\ limit = 50000
  /\ evaluation[1].spent = 62000
  /\ evaluation[1].remaining = -12000
  /\ evaluation[1].is_exceeded
\* The categories of the subtree of root, from the root downward.
RECURSIVE Subtree(_)
Subtree(S) ==
  LET grown == S \cup {d \in TreeCats : parent_id(d) \in S} IN
  IF grown = S THEN S ELSE Subtree(grown)

\* What transaction t adds to the spent of budget b.
ContributionTo(b, t) ==
  IF /\ t.amount < 0
     /\ t.category \in Subtree({b.category})
     /\ b.start_date <= t.date
     /\ t.date <= b.end_date
    THEN 0 - t.amount
    ELSE 0

\* What transaction t adds to the spent of the budget under evaluation.
Contribution(t) == ContributionTo(budget[1], t)

RECURSIVE SumUpTo(_)
SumUpTo(n) == IF n = 0 THEN 0 ELSE Contribution(ledger[n]) + SumUpTo(n - 1)
SingleCurrency == \A i \in DOMAIN ledger : ledger[i].currency = budget[1].currency

\* C11: in a single currency, spent is the sum of the absolute values of the
\* transactions with a negative amount, a category in the budget category's
\* subtree and a date within [start_date, end_date], bounds included; no
\* other transaction contributes.
C11_SpentIsSumOfMatchingExpenses ==
  (outcome # <<>> /\ SingleCurrency) =>
     /\ outcome[1].status = "ok"
     /\ outcome[1].figures[1].spent = SumUpTo(Len(ledger))

\* An expense of a descendant category on the last day was counted, and a
\* transaction outside the range was not.
C11_Witness ==
  /\ outcome # <<>>
  /\ SingleCurrency
  /\ outcome[1].status = "ok"
  /\ outcome[1].figures[1].spent = 30
  /\ \E i, j \in DOMAIN ledger :
       /\ ledger[i].amount < 0
       /\ ledger[i].category = 3
       /\ ledger[i].date = budget[1].end_date
       /\ ledger[j].amount < 0
       /\ ledger[j].date > budget[1].end_date

\* C12: when an amount that counts toward the budget is not in the limit's
\* currency, the evaluation is CurrencyMismatch and carries no figures;
\* figures are only produced from amounts of the limit's currency.
C12_MixedCurrencyRejected ==
  outcome # <<>> =>
     IF \E i \in DOMAIN ledger :
          Contribution(ledger[i]) > 0 /\ ledger[i].currency # budget[1].currency
       THEN outcome[1].status = "CurrencyMismatch" /\ outcome[1].figures = <<>>
       ELSE outcome[1].status = "ok"

\* A USD and a EUR expense under the budget were refused.
C12_Witness ==
  /\ outcome # <<>>
  /\ outcome[1].status = "CurrencyMismatch"
  /\ outcome[1].figures = <<>>
  /\ \E i, j \in DOMAIN ledger :
       /\ Contribution(ledger[i]) > 0
       /\ Contribution(ledger[j]) > 0
       /\ ledger[i].currency = "USD"
       /\ ledger[j].currency = "EUR"
RECURSIVE SumFor(_, _)
SumFor(b, n) == IF n = 0 THEN 0 ELSE ContributionTo(b, ledger[n]) + SumFor(b, n - 1)
Mismatched(b) ==
  \E i \in DOMAIN ledger :
     ContributionTo(b, ledger[i]) > 0 /\ ledger[i].currency # b.currency

\* C17: an error under one budget of a batch does not abort the batch: every
\* budget has its entry in the report, a budget without a mismatch has its
\* figures whatever happened to the others, and a failed one is reported as
\* CurrencyMismatch in its place.
C17_PerItemErrors ==
  report # <<>> =>
     /\ Len(report[1]) = Len(BudgetBatch)
     /\ \A i \in DOMAIN report[1] :
          /\ report[1][i].budget = BudgetBatch[i]
          /\ IF Mismatched(BudgetBatch[i])
               THEN report[1][i].status = "CurrencyMismatch"
               ELSE /\ report[1][i].status = "ok"
                    /\ report[1][i].figures[1].spent =
                         SumFor(BudgetBatch[i], Len(ledger))

\* One budget of the batch failed on a currency mismatch and the other was
\* evaluated, with a spent above zero.
C17_Witness ==
  /\ report # <<>>
  /\ report[1][1].status = "CurrencyMismatch"
  /\ report[1][2].status = "ok"
  /\ report[1][2].figures[1].spent > 0
\* The groups of the detector's input, by normalized description.
HistoryGroups ==
  {GroupOf(history, k) : k \in {normalize(history[i].description) : i \in DOMAIN history}}
\* The amounts of a group are within the tolerance of +-0 of each other.
WithinTolerance(g) == \A i, j \in g : history[i].amount = history[j].amount
MatchesFor(g) == {m \in patterns[1] : m.ids = g}

\* C13: a group of exactly 2 transactions produces no PatternMatch, and a
\* group of 3 or more transactions with amounts within the tolerance produces
\* exactly one PatternMatch, listing all its members.
C13_RecurringGroups ==
  patterns # <<>> =>
     \A g \in HistoryGroups :
        /\ Cardinality(g) = 2 => \A m \in patterns[1] : m.ids \cap g = {}
        /\ (Cardinality(g) >= RECURRING_MIN /\ WithinTolerance(g)) =>
             Cardinality(MatchesFor(g)) = 1
SamplesIn(c) == {i \in DOMAIN samples : samples[i].category = c}

KindRank(k) == CASE k = "Budget" -> 1 [] k = "Anomaly" -> 2 [] OTHER -> 3

\* C15: a sequence returned by generate_monthly_insights has non-increasing
\* priorities, and among equal priorities Budget findings come before
\* Anomaly findings, which come before Pattern findings.
C15_SortedByPriority ==
  (insights # <<>> /\ insights[1].status = "returned") =>
     \A i, j \in DOMAIN insights[1].value :
        i < j =>
          \/ insights[1].value[i].priority > insights[1].value[j].priority
          \/ /\ insights[1].value[i].priority = insights[1].value[j].priority
             /\ KindRank(insights[1].value[i].kind) <= KindRank(insights[1].value[j].kind)

WithPriority(q, p) == SelectSeq(q, LAMBDA x : x.priority = p)
ByPriority(q) == WithPriority(q, 3) \o WithPriority(q, 2) \o WithPriority(q, 1)
Finding(x) == [kind |-> x.kind, priority |-> x.priority]
FindingsOf(q) == [i \in DOMAIN q |-> Finding(q[i])]

\* C16: whether the text-generation capability answers, fails or is absent,
\* generate_monthly_insights returns, and returns the findings of the
\* analysis with their priorities, in priority order.
C16_EnrichmentOnlyFormats ==
  insights # <<>> =>
     /\ insights[1].status = "returned"
     /\ FindingsOf(insights[1].value) =
          ByPriority(aiInsights[1].request.budget_analysis
                       \o aiInsights[1].request.spending_patterns)

\* C18: suggest_categories never fails: it returns a sequence, and the empty
\* sequence when the AI capability it delegates to is unavailable.
C18_SuggestNeverFails ==
  suggestions # <<>> =>
     /\ suggestions[1].status = "returned"
     /\ aiSuggestions[1].status = "error" => suggestions[1].value = <<>>
Outranks(i, j) ==
  \/ rules[i].kind = "merchant" /\ rules[j].kind = "keyword"
  \/ rules[i].kind = rules[j].kind /\ i < j

Winners(t) ==
  {i \in DOMAIN rules :
     /\ rule_matches(rules[i], t)
     /\ \A j \in DOMAIN rules \ {i} : rule_matches(rules[j], t) => Outranks(i, j)}

\* C20: for a non-blank description the engine returns the target category
\* and base_confidence of the matching rule that outranks every other
\* matching rule, null when no rule matches, and null for an empty or
\* whitespace-only description.
C20_FirstMatchInPriorityOrder ==
  \A n \in DOMAIN lookup :
     LET t == lookup[n].transaction
         r == lookup[n].result
     IN IF IsBlank(t.description) \/ \A i \in DOMAIN rules : ~rule_matches(rules[i], t)
          THEN r = NoSuggestion
          ELSE \E i \in Winners(t) :
                  r = [category |-> rules[i].target_category,
                       confidence |-> rules[i].base_confidence]

\* A keyword rule listed first and a merchant rule listed second both match
\* a transaction and the merchant rule's suggestion was returned; a
\* whitespace-only description with a matching merchant got null.
C20_Witness ==
  /\ Len(rules) = 2
  /\ rules[1].kind = "keyword" /\ rules[2].kind = "merchant"
  /\ \E n \in DOMAIN lookup :
        /\ rule_matches(rules[1], lookup[n].transaction)
        /\ rule_matches(rules[2], lookup[n].transaction)
        /\ ~IsBlank(lookup[n].transaction.description)
        /\ lookup[n].result = [category |-> rules[2].target_category,
                               confidence |-> rules[2].base_confidence]
        /\ lookup[n].result.confidence # rules[1].base_confidence
  /\ \E n \in DOMAIN lookup :
        /\ IsBlank(lookup[n].transaction.description)
        /\ rule_matches(rules[2], lookup[n].transaction)
        /\ lookup[n].result = NoSuggestion
\* C21: is_exceeded is true exactly when spent > limit: at spent = limit the
\* budget is not exceeded while percentage_used is 100, and below the limit
\* it is never exceeded.
C21_ExceededIsStrict ==
  Evaluated =>
     /\ evaluation[1].is_exceeded <=> evaluation[1].spent > limit
     /\ evaluation[1].spent = limit =>
          /\ ~evaluation[1].is_exceeded
          /\ QEq(evaluation[1].percentage_used, <<PERCENT, 1>>)
     /\ evaluation[1].spent < limit => ~evaluation[1].is_exceeded

\* A budget whose spent equals its limit was evaluated: not exceeded, at 100
\* percent.
C21_Witness ==
  /\ Evaluated
  /\ evaluation[1].spent = limit
  /\ ~evaluation[1].is_exceeded
  /\ QEq(evaluation[1].percentage_used, <<PERCENT, 1>>)
\* C22: an operation combining two Money values fails when their currencies
\* differ, and otherwise its Money result is in the operands' common
\* currency.
C22_MoneyOpsKeepCurrency ==
  moneyOps # <<>> =>
     IF moneyOps[1].a.currency # moneyOps[1].b.currency
       THEN moneyOps[1].result.raised
       ELSE /\ ~moneyOps[1].result.raised
            /\ moneyOps[1].op # "is_exceeded" =>
                 moneyOps[1].result.currency = moneyOps[1].a.currency
\* The priority the mapping gives a budget evaluation: HIGH (3) when
\* exceeded, MEDIUM (2) from 80 percent used, LOW (1) otherwise.
MappedPriority(ev) ==
  IF ev.is_exceeded
    THEN 3
    ELSE IF QLeq(<<80, 1>>, ev.percentage_used) THEN 2 ELSE 1

\* C23: every returned insight about a budget has the priority the mapping
\* gives that budget's evaluation: HIGH when exceeded, MEDIUM when at least
\* 80 percent is used and it is not exceeded, LOW otherwise.
C23_PriorityFollowsFinding ==
  (insights # <<>> /\ insights[1].status = "returned"
     /\ Len(aiInsights[1].request.budget_analysis) = 1) =>
     \A i \in DOMAIN insights[1].value :
        insights[1].value[i].kind = "Budget" =>
           insights[1].value[i].priority =
             MappedPriority(aiInsights[1].request.budget_analysis[1])
\* C24: in every state of the auth store isAuthenticated is true if and only
\* if token is non-null, and if and only if user is non-null.
C24_AuthenticatedIffTokenIffUser ==
  /\ store.isAuthenticated <=> store.token # null
  /\ store.isAuthenticated <=> store.user # null

\* The store is authenticated while a register call is in flight and after a
\* setError.
C24_Witness ==
  /\ store.isAuthenticated
  /\ store.token \in Tokens
  /\ store.user \in Users
  /\ \E c \in CallIds : calls[c].pc = "auth_register"
  /\ store.error \in ServerDetails
\* C25: once logout was called, a login that was already in flight does not
\* authenticate the store again: the store goes from unauthenticated to
\* authenticated only by a login started after the last logout.
C25_LogoutHoldsAgainstOlderLogins ==
  [][(~store.isAuthenticated /\ store'.isAuthenticated) =>
       \E c \in CallIds :
          /\ calls[c].pc = "auth_me" /\ calls'[c].pc = "resolved"
          /\ ~calls[c].stale]_vars

\* The store's user, token and isAuthenticated are the same after the step.
SessionKept ==
  /\ store'.user = store.user
  /\ store'.token = store.token
  /\ store'.isAuthenticated = store.isAuthenticated

\* C26: every step of a login that fails leaves user, token and
\* isAuthenticated as they were; the failing step sets isLoading to false
\* and error to a message and rejects, and the access token of the first
\* step is not stored.
C26_FailedLoginKeepsSession ==
  [][\A c \in CallIds :
       /\ (calls'[c].kind = "login" /\ calls'[c].pc # calls[c].pc
             /\ calls'[c].pc \in {"auth_login", "auth_me", "rejected"})
            => SessionKept
       /\ (calls[c].kind = "login" /\ InFlight(c) /\ calls'[c].pc = "rejected")
            => /\ ~store'.isLoading
               /\ store'.error # null
               /\ store'.error \in LoginFailures \cup {UserInfoFailure}]_vars

\* A login failed at the /auth/me request while the store was signed in with
\* another token: the session is as it was and the new token is not stored.
C26_Witness ==
  \E c \in CallIds :
     /\ calls[c].kind = "login" /\ calls[c].pc = "rejected"
     /\ calls[c].access_token \in Tokens
     /\ store.isAuthenticated
     /\ store.token # calls[c].access_token
     /\ store.error = UserInfoFailure
     /\ ~store.isLoading

\* C27: while a login or register call is in flight isLoading is true, and
\* it is false once all of them have completed.
C27_LoadingWhileInFlight ==
  /\ (\E c \in CallIds : InFlight(c)) => store.isLoading
  /\ ((\A c \in CallIds : ~InFlight(c)) /\ (\E c \in CallIds : calls[c] # NoCall))
       => ~store.isLoading

\* C28: no step of a register call, starting, succeeding or failing, changes
\* user, token or isAuthenticated.
C28_RegisterKeepsSession ==
  [][\A c \in CallIds :
       (calls'[c].kind = "register" /\ calls'[c] # calls[c]) => SessionKept]_vars

\* A registration succeeded and the store is still unauthenticated, with
\* nothing loading and no error.
C28_Witness ==
  \E c \in CallIds :
     /\ calls[c].kind = "register" /\ calls[c].pc = "resolved"
     /\ \A d \in CallIds \ {c} : calls[d] = NoCall
     /\ store = initialState

\* C29: after a page reload user, token and isAuthenticated are what they
\* were before it, isLoading is false and error is null.
C29_ReloadRestoresSessionOnly ==
  reloaded # <<>> =>
     /\ store.user = reloaded[1].user
     /\ store.token = reloaded[1].token
     /\ store.isAuthenticated = reloaded[1].isAuthenticated
     /\ ~store.isLoading
     /\ store.error = null
     /\ \A c \in CallIds : ~InFlight(c)

\* The page was reloaded while the store was signed in, loading and showing
\* an error.
C29_Witness ==
  /\ reloaded # <<>>
  /\ reloaded[1].isAuthenticated
  /\ reloaded[1].isLoading
  /\ reloaded[1].error # null
  /\ store.isAuthenticated
  /\ ~store.isLoading
====
